---- MODULE Spec2Model ----
(***************************************************************************)
(* Model of the TestRail templater (tr_utils/utils/tr_templater.py) and of *)
(* the helpers of TestRailInterface it calls                               *)
(* (tr_utils/interface/tr_interface.py).                                   *)
(*                                                                         *)
(* Python values are tagged records [kind, val]: kind "str" (val a         *)
(* sequence of one-character strings), "list" (val a sequence of step      *)
(* records [content, expected], both sequences of characters), "int" and   *)
(* "none".  An Optional constructor argument is a set with at most one     *)
(* element: {} is None, {v} is the value v.                                *)
(***************************************************************************)
EXTENDS Integers, Sequences, FiniteSets, TLC

\* ------------------------------------------------------------------------
\* Bounds of the model
\* ------------------------------------------------------------------------

\* longest candidate string enumerated for the field merge
MaxStrLen == 5

\* longest template string enumerated for the field merge
MaxTplLen == 2

\* longest candidate steps list enumerated for the field merge
MaxSteps == 3

\* longest template steps list enumerated for the field merge
MaxTplSteps == 2

\* number of times the merge of one field is repeated (one per run)
MaxMerges == 2

\* most cases a fetch returns
MaxCases == 3

\* most cases of a fetch whose cases are only selected, not updated
MaxSelectCases == 3

\* most sections of the section data given to get_child_sections
MaxSections == 3

\* most section ids given to get_child_sections
MaxRoots == 2

\* number of times get_child_sections is applied, each time to the ids the
\* previous application returned
MaxResolves == 2

\* most templaters constructed in one process
MaxInstances == 3

\* most runs made in one process
MaxRuns == 2

\* ------------------------------------------------------------------------
\* State
\* ------------------------------------------------------------------------

VARIABLES
    end_marker,     \* TestRailTemplater._end_marker (class attribute)
    args,           \* the arguments __init__ was called with
    self,           \* the attributes __init__ sets on the templater
    dry_run,        \* execute_templater's argument
    pc,             \* position in __init__ / execute_templater
    test_case_data, \* the case records fetched; cases are updated in place
    fetched,        \* the case records as the fetch returned them
    template_case_data,   \* dict template id -> case, in insertion order;
                          \* a case is held as its index in test_case_data
    test_cases_to_update, \* dict template id -> list of cases (indexes)
    work,           \* the (template, candidate) pairs of the update loop, in order
    pos,            \* the next pair of the update loop
    cases_updated,  \* _update_test_cases' cases_updated
    calls,          \* every call made to the TestRail API, in order
    outcome,        \* how execute_templater ended
    log,            \* the error and exception records logged, in order
    m_template,     \* field merge alone: template_data[field]
    m_prev,         \* field merge alone: case_to_update[field] before the latest merge
    m_case,         \* field merge alone: case_to_update[field]
    m_changed,      \* field merge alone: whether the latest merge set change_made
    m_raised,       \* field merge alone: whether the latest merge raised
    m_count,        \* field merge alone: merges applied so far
    s_sections,     \* get_child_sections alone: sections_data
    s_roots,        \* get_child_sections alone: template_section_ids of the latest call
    s_result,       \* get_child_sections alone: what the latest call returned
    s_outcome,      \* get_child_sections alone: how the latest call ended
    s_count,        \* get_child_sections alone: calls made so far
    p_instances,    \* one process: the templaters constructed so far, in order
    p_used          \* one process: the runs made so far and the marker each read

run_vars == <<args, self, dry_run, pc, test_case_data, fetched, template_case_data,
              test_cases_to_update, work, pos, cases_updated, calls, outcome, log>>

merge_vars == <<m_template, m_prev, m_case, m_changed, m_raised, m_count>>

sec_vars == <<s_sections, s_roots, s_result, s_outcome, s_count>>

proc_vars == <<p_instances, p_used>>

vars == <<end_marker, run_vars, merge_vars, sec_vars, proc_vars>>

\* ------------------------------------------------------------------------
\* Python values
\* ------------------------------------------------------------------------

PyStr(s) == [kind |-> "str", val |-> s]

PyList(l) == [kind |-> "list", val |-> l]

PyInt(n) == [kind |-> "int", val |-> n]

NoneValue == [kind |-> "none", val |-> 0]

Step(c, e) == [content |-> c, expected |-> e]

\* Python ==  on two field values
py_eq(a, b) == a.kind = b.kind /\ a.val = b.val

\* Optional values: None and a present value
None == {}

Some(v) == {v}

The(o) == CHOOSE v \in o : TRUE

\* Python: x in xs, for a list xs of ints
in_list(x, xs) == \E k \in 1..Len(xs) : xs[k] = x

\* Python: str(n) for an int n >= 0
RECURSIVE int_str(_)
int_str(n) ==
    LET digit == <<"0", "1", "2", "3", "4", "5", "6", "7", "8", "9">>
    IN  IF n < 10 THEN <<digit[n + 1]>>
        ELSE int_str(n \div 10) \o <<digit[(n % 10) + 1]>>

\* ------------------------------------------------------------------------
\* str operations: `sub in s` and s.split(sep), for a non-empty sep
\* ------------------------------------------------------------------------

\* index of the first occurrence of sub in s at or after position i; 0 if none
RECURSIVE str_find(_, _, _)
str_find(s, sub, i) ==
    IF i + Len(sub) - 1 > Len(s) THEN 0
    ELSE IF SubSeq(s, i, i + Len(sub) - 1) = sub THEN i
    ELSE str_find(s, sub, i + 1)

\* a variant that finds every substring everywhere
str_contains_always(s, sub) == TRUE

\* Python: sub in s
str_contains(s, sub) == str_find(s, sub, 1) # 0

\* Python: s.split(sep) -- every non-overlapping occurrence of sep, scanned
\* from the left, separates two pieces
RECURSIVE str_split(_, _)
str_split(s, sep) ==
    LET j == str_find(s, sep, 1)
    IN  IF j = 0 THEN <<s>>
        ELSE <<SubSeq(s, 1, j - 1)>> \o str_split(SubSeq(s, j + Len(sep), Len(s)), sep)

\* ------------------------------------------------------------------------
\* TestRailTemplater: the helpers of the field merge
\* ------------------------------------------------------------------------

\* the literal "{0}{1}{2}" returned when the split yields a single piece
format_string == <<"{", "0", "}", "{", "1", "}", "{", "2", "}">>

\* a variant that never takes the already-applied early return
handle_string_replacement_no_guard(template_data, case_data, marker) ==
    LET splits == str_split(case_data, marker)
    IN  IF Len(splits) > 1
        THEN template_data \o marker \o splits[2]
        ELSE format_string

\* _handle_string_replacement: "" when the text before the first marker is
\* the template, else template + marker + splits[1]
handle_string_replacement(template_data, case_data, marker) ==
    LET splits == str_split(case_data, marker)
    IN  IF Len(splits) > 1
        THEN IF template_data = splits[1] THEN <<>>
             ELSE template_data \o marker \o splits[2]
        ELSE format_string

\* scan of _check_for_endmarker_step from index i (1-based); result 0-based
RECURSIVE endmarker_scan(_, _, _)
endmarker_scan(case_data_steps, marker, i) ==
    IF i > Len(case_data_steps) THEN -1
    ELSE IF str_contains(case_data_steps[i].content, marker) THEN i - 1
    ELSE endmarker_scan(case_data_steps, marker, i + 1)

\* a variant that reports the last marker step instead of the first
check_for_endmarker_step_last(case_data_steps, marker) ==
    LET hits == {i \in 1..Len(case_data_steps) :
                    str_contains(case_data_steps[i].content, marker)}
    IN  IF hits = {} THEN -1
        ELSE (CHOOSE i \in hits : \A k \in hits : k <= i) - 1

\* _check_for_endmarker_step: 0-based index of the first step whose content
\* contains the marker, -1 if there is none
check_for_endmarker_step(case_data_steps, marker) ==
    endmarker_scan(case_data_steps, marker, 1)

\* a variant without the length comparison of line 257
is_steps_list_same_no_length(case_data_steps, template_data_steps, end_marker_index) ==
    IF end_marker_index > -1 /\ end_marker_index # Len(template_data_steps)
    THEN FALSE
    ELSE \A i \in 1..Len(template_data_steps) :
            i <= Len(case_data_steps) =>
                /\ case_data_steps[i].content = template_data_steps[i].content
                /\ case_data_steps[i].expected = template_data_steps[i].expected

\* a variant that compares the steps' content only
is_steps_list_same_content_only(case_data_steps, template_data_steps, end_marker_index) ==
    IF Len(case_data_steps) < Len(template_data_steps) THEN FALSE
    ELSE IF end_marker_index > -1 /\ end_marker_index # Len(template_data_steps)
         THEN FALSE
    ELSE \A i \in 1..Len(template_data_steps) :
            case_data_steps[i].content = template_data_steps[i].content

\* _is_steps_list_same
is_steps_list_same(case_data_steps, template_data_steps, end_marker_index) ==
    IF Len(case_data_steps) < Len(template_data_steps) THEN FALSE
    ELSE IF end_marker_index > -1 /\ end_marker_index # Len(template_data_steps)
         THEN FALSE
    ELSE \A i \in 1..Len(template_data_steps) :
            /\ case_data_steps[i].content = template_data_steps[i].content
            /\ case_data_steps[i].expected = template_data_steps[i].expected

\* outcome of merging one field: the new value of case_to_update[field],
\* whether the field set change_made, whether an exception was raised
Merged(v, c) == [value |-> v, changed |-> c, raised |-> FALSE]

Raised(v) == [value |-> v, changed |-> FALSE, raised |-> TRUE]

\* steps branch, lines 199-214
merge_steps(template_steps, case_value, marker) ==
    IF case_value.kind = "list" \/ (case_value.kind = "str" /\ case_value.val = <<>>)
    THEN LET case_steps == case_value.val
             end_template_after_step_index == check_for_endmarker_step(case_steps, marker)
         IN  IF ~ is_steps_list_same(case_steps, template_steps,
                                     end_template_after_step_index)
             THEN IF end_template_after_step_index = -1
                  THEN Merged(PyList(template_steps), TRUE)
                  ELSE Merged(PyList(template_steps
                                \o SubSeq(case_steps, end_template_after_step_index + 1,
                                          Len(case_steps))), TRUE)
             ELSE Merged(case_value, FALSE)
    ELSE Raised(case_value)  \* len(None), len(5), "abc"[0]['content']: TypeError

\* a variant of the string branch without the test of line 218
merge_string_overwrite(template_str, case_value, marker) ==
    IF case_value.kind # "str" \/ case_value.val # template_str
    THEN IF case_value.kind = "str"
         THEN IF str_contains(case_value.val, marker)
              THEN LET new_str_data ==
                           handle_string_replacement(template_str, case_value.val, marker)
                   IN  IF new_str_data # <<>>
                       THEN Merged(PyStr(new_str_data), TRUE)
                       ELSE Merged(case_value, FALSE)
              ELSE Merged(PyStr(template_str), TRUE)
         ELSE IF case_value.kind = "list"
              THEN Merged(case_value, FALSE)
              ELSE Raised(case_value)
    ELSE Merged(case_value, FALSE)

\* string branch, lines 217-223
merge_string(template_str, case_value, marker) ==
    IF case_value.kind # "str" \/ case_value.val # template_str
    THEN IF case_value.kind = "str"
         THEN IF str_contains(case_value.val, marker)
              THEN LET new_str_data ==
                           handle_string_replacement(template_str, case_value.val, marker)
                   IN  IF new_str_data # <<>>
                       THEN Merged(PyStr(new_str_data), TRUE)
                       ELSE Merged(case_value, FALSE)
              ELSE Merged(case_value, FALSE)
         ELSE IF case_value.kind = "list"
              THEN Merged(case_value, FALSE)   \* a str is no element of a steps list
              ELSE Raised(case_value)          \* marker in None, marker in 5: TypeError
    ELSE Merged(case_value, FALSE)

\* a variant that assigns the template value without setting change_made
merge_scalar_no_flag(template_field_data, case_value) ==
    IF ~ py_eq(case_value, template_field_data)
    THEN Merged(template_field_data, FALSE)
    ELSE Merged(case_value, FALSE)

\* other values, lines 225-227
merge_scalar(template_field_data, case_value) ==
    IF ~ py_eq(case_value, template_field_data)
    THEN Merged(template_field_data, TRUE)
    ELSE Merged(case_value, FALSE)

\* the body of the loop over the configured fields, lines 196-227, for one
\* field present in both records
merge_field(template_field_data, case_value, marker) ==
    IF template_field_data.kind = "list"
    THEN merge_steps(template_field_data.val, case_value, marker)
    ELSE IF template_field_data.kind = "str"
    THEN merge_string(template_field_data.val, case_value, marker)
    ELSE merge_scalar(template_field_data, case_value)

\* ------------------------------------------------------------------------
\* Helpers of the model: results of code that may raise, ordered dicts
\* ------------------------------------------------------------------------

\* a helper's result when it returned, and when it raised
Ok(v) == [ok |-> TRUE, val |-> v]

Fail(v) == [ok |-> FALSE, val |-> v]

\* a Python dict as the sequence of its (key, value) entries in insertion
\* order; d[k] = v replaces the value of an existing key in place
dict_set(d, k, v) ==
    IF \E i \in 1..Len(d) : d[i].key = k
    THEN [i \in 1..Len(d) |-> IF d[i].key = k THEN [key |-> k, value |-> v] ELSE d[i]]
    ELSE Append(d, [key |-> k, value |-> v])

dict_has(d, k) == \E i \in 1..Len(d) : d[i].key = k

dict_get(d, k) == d[CHOOSE i \in 1..Len(d) : d[i].key = k].value

dict_keys(d) == [i \in 1..Len(d) |-> d[i].key]

dict_values(d) == [i \in 1..Len(d) |-> d[i].value]

\* whether a case record has the key (else record[key] raises KeyError)
has_field(record, field) == field \in DOMAIN record

\* ------------------------------------------------------------------------
\* TestRailInterface: section helpers
\* ------------------------------------------------------------------------

\* "parent_id": None of a root section; section ids are >= 1
NoParent == 0

Section(id, parent_id) == [id |-> id, parent_id |-> parent_id]

\* temp_lookup of _secs_get_child_sections: section id -> parent id
RECURSIVE section_lookup(_, _, _)
section_lookup(sections, k, temp_lookup) ==
    IF k > Len(sections) THEN temp_lookup
    ELSE section_lookup(sections, k + 1,
                        dict_set(temp_lookup, sections[k].id, sections[k].parent_id))

\* a variant that stops at the children of the section
RECURSIVE secs_get_all_descendants_of_section_children_only(_, _, _, _)
secs_get_all_descendants_of_section_children_only(section_id, section_lookups, k, depth) ==
    IF k > Len(section_lookups) THEN Ok(<<>>)
    ELSE LET rest == secs_get_all_descendants_of_section_children_only(
                         section_id, section_lookups, k + 1, depth)
         IN  IF section_id = section_lookups[k].value
             THEN Ok(<<section_lookups[k].key>> \o rest.val)
             ELSE rest

\* _secs_get_all_descendants_of_section, the loop from entry k of the lookup.
\* depth is the recursion depth: it exceeds the number of sections + 1 only
\* on a cycle, where the recursion never ends (RecursionError)
RECURSIVE secs_get_all_descendants_of_section(_, _, _, _)
secs_get_all_descendants_of_section(section_id, section_lookups, k, depth) ==
    IF depth > Len(section_lookups) + 1 THEN Fail(<<>>)
    ELSE IF k > Len(section_lookups) THEN Ok(<<>>)
    ELSE LET sec_id == section_lookups[k].key
             prnt_id == section_lookups[k].value
             rest == secs_get_all_descendants_of_section(section_id, section_lookups,
                                                         k + 1, depth)
         IN  IF section_id = prnt_id
             THEN LET sub == secs_get_all_descendants_of_section(sec_id, section_lookups,
                                                                 1, depth + 1)
                  IN  IF sub.ok /\ rest.ok
                      THEN Ok(<<sec_id>> \o sub.val \o rest.val)
                      ELSE Fail(<<>>)
             ELSE rest

\* _secs_get_child_sections: [] when the traversal raised
secs_get_child_sections(section_id, sections) ==
    LET r == secs_get_all_descendants_of_section(
                 section_id, section_lookup(sections, 1, <<>>), 1, 1)
    IN  IF r.ok THEN r.val ELSE <<>>

\* a variant that leaves the given ids themselves out
RECURSIVE get_child_sections_from_no_root(_, _, _)
get_child_sections_from_no_root(template_section_ids, sections_data, k) ==
    IF k > Len(template_section_ids) THEN <<>>
    ELSE secs_get_child_sections(template_section_ids[k], sections_data)
            \o get_child_sections_from_no_root(template_section_ids, sections_data, k + 1)

\* get_child_sections: each given id followed by its descendants
RECURSIVE get_child_sections_from(_, _, _)
get_child_sections_from(template_section_ids, sections_data, k) ==
    IF k > Len(template_section_ids) THEN <<>>
    ELSE <<template_section_ids[k]>>
            \o secs_get_child_sections(template_section_ids[k], sections_data)
            \o get_child_sections_from(template_section_ids, sections_data, k + 1)

get_child_sections(template_section_ids, sections_data) ==
    get_child_sections_from(template_section_ids, sections_data, 1)

\* get_case_ids_from_case_data, the cases given as indexes into case_data
get_case_ids_from_case_data(case_refs, case_data) ==
    [k \in 1..Len(case_refs) |-> case_data[case_refs[k]].id]

\* ------------------------------------------------------------------------
\* TestRailTemplater: construction, validation, selection
\* ------------------------------------------------------------------------

\* the class attribute before any override
DefaultEndMarker == <<"!", "E", "N", "D", "T", "E", "M", "P", "L", "A", "T", "E", "!">>

\* a variant where a construction without an override restores the default
init_end_marker_own_default(current, end_marker_override) ==
    IF end_marker_override # None THEN The(end_marker_override) ELSE DefaultEndMarker

\* lines 101-103 and 72: the class attribute after __init__, from the class
\* attribute before it; _set_default_end_marker assigns the class attribute
init_end_marker(current, end_marker_override) ==
    IF end_marker_override # None THEN The(end_marker_override) ELSE current

\* a templater as far as the marker goes: the override it was constructed
\* with and its own _end_marker attribute, which __init__ never assigns
Templater(end_marker_override) ==
    [end_marker_override |-> end_marker_override, own_end_marker |-> None]

\* self._end_marker (lines 218, 281, 296): the instance's own attribute if
\* it has one, else the class attribute
self_end_marker(obj, class_end_marker) ==
    IF obj.own_end_marker # None THEN The(obj.own_end_marker) ELSE class_end_marker

\* the arguments of __init__
Args(tr_proj_id, template_id_field, template_fields_csv, section_ids_csv, case_ids_csv, tr_suite_id, end_marker_override, get_all_child_sections) ==
    [ tr_proj_id |-> tr_proj_id,
      template_id_field |-> template_id_field,
      template_fields_csv |-> template_fields_csv,
      section_ids_csv |-> section_ids_csv,
      case_ids_csv |-> case_ids_csv,
      tr_suite_id |-> tr_suite_id,
      end_marker_override |-> end_marker_override,
      get_all_child_sections |-> get_all_child_sections ]

\* __init__: the attributes of the new templater.  A csv argument is given
\* as the list of its comma-separated items (ids already as ints), so
\* split(',') and int() keep it as it is; "" splits into [""].  With
\* template_fields_csv = None line 109 raises and the attributes assigned
\* after it stay unset (attrs_set = FALSE).
init(tr_proj_id, template_id_field, template_fields_csv, section_ids_csv, case_ids_csv, tr_suite_id, get_all_child_sections) ==
    [ tr_proj_id |-> tr_proj_id,
      tr_suite_id |-> tr_suite_id,
      template_id_field_name |-> template_id_field,
      attrs_set |-> template_fields_csv # None,
      fields_to_template |->
          IF template_fields_csv = None THEN None ELSE template_fields_csv,
      get_all_child_sections |-> get_all_child_sections,
      template_src_section_ids |->
          IF template_fields_csv = None THEN None
          ELSE IF section_ids_csv = None THEN Some(<<>>) ELSE section_ids_csv,
      template_src_case_ids |->
          IF template_fields_csv = None THEN None
          ELSE IF case_ids_csv = None THEN Some(<<>>) ELSE case_ids_csv ]

\* _verify_params, for a templater whose attributes are all set
verify_params(obj) ==
    IF obj.tr_proj_id = None THEN FALSE
    ELSE IF obj.template_src_case_ids = None /\ obj.template_src_section_ids = None
    THEN FALSE
    ELSE IF obj.template_id_field_name = None THEN FALSE
    ELSE IF obj.fields_to_template = None \/ Len(The(obj.fields_to_template)) = 0
    THEN FALSE
    ELSE TRUE

\* a variant of the loop that keeps the first case of a template id
RECURSIVE template_cases_from_secs_first_wins(_, _, _, _, _)
template_cases_from_secs_first_wins(case_data, section_ids, template_id_field, i, template_cases) ==
    IF i > Len(case_data) THEN template_cases
    ELSE IF in_list(case_data[i].section_id, section_ids)
    THEN IF has_field(case_data[i], template_id_field)
         THEN template_cases_from_secs_first_wins(case_data, section_ids,
                  template_id_field, i + 1,
                  IF dict_has(template_cases, case_data[i][template_id_field])
                  THEN template_cases
                  ELSE dict_set(template_cases, case_data[i][template_id_field], i))
         ELSE template_cases
    ELSE template_cases_from_secs_first_wins(case_data, section_ids, template_id_field,
                                             i + 1, template_cases)

\* _get_template_cases_from_secs, the loop from case i; a case without the
\* template id field raises KeyError, which ends the loop (line 340)
RECURSIVE template_cases_from_secs(_, _, _, _, _)
template_cases_from_secs(case_data, section_ids, template_id_field, i, template_cases) ==
    IF i > Len(case_data) THEN template_cases
    ELSE IF in_list(case_data[i].section_id, section_ids)
    THEN IF has_field(case_data[i], template_id_field)
         THEN template_cases_from_secs(case_data, section_ids, template_id_field, i + 1,
                  dict_set(template_cases, case_data[i][template_id_field], i))
         ELSE template_cases
    ELSE template_cases_from_secs(case_data, section_ids, template_id_field, i + 1,
                                  template_cases)

get_template_cases_from_secs(case_data, section_ids, template_id_field) ==
    template_cases_from_secs(case_data, section_ids, template_id_field, 1, <<>>)

\* _get_template_cases_from_case_ids, the loop from case i
RECURSIVE template_cases_from_case_ids(_, _, _, _, _)
template_cases_from_case_ids(src_template_case_ids, case_data, template_id_field, i, template_cases) ==
    IF i > Len(case_data) THEN template_cases
    ELSE IF in_list(case_data[i].id, src_template_case_ids)
    THEN IF has_field(case_data[i], template_id_field)
         THEN template_cases_from_case_ids(src_template_case_ids, case_data,
                  template_id_field, i + 1,
                  dict_set(template_cases, case_data[i][template_id_field], i))
         ELSE template_cases
    ELSE template_cases_from_case_ids(src_template_case_ids, case_data,
                                      template_id_field, i + 1, template_cases)

get_template_cases_from_case_ids(src_template_case_ids, case_data, template_id_field) ==
    template_cases_from_case_ids(src_template_case_ids, case_data, template_id_field,
                                 1, <<>>)

\* a variant of the loop without the exclusion of the template cases
RECURSIVE cases_to_update_from_keep_templates(_, _, _, _, _, _)
cases_to_update_from_keep_templates(template_ids, template_case_ids, case_data, template_field_id, i, cases_to_update) ==
    IF i > Len(case_data) THEN cases_to_update
    ELSE IF ~ has_field(case_data[i], template_field_id)
    THEN cases_to_update
    ELSE LET tid == case_data[i][template_field_id]
         IN  IF \E k \in 1..Len(template_ids) : template_ids[k] = tid
             THEN cases_to_update_from_keep_templates(template_ids, template_case_ids,
                      case_data, template_field_id, i + 1,
                      dict_set(cases_to_update, tid,
                               Append(dict_get(cases_to_update, tid), i)))
             ELSE cases_to_update_from_keep_templates(template_ids, template_case_ids,
                      case_data, template_field_id, i + 1, cases_to_update)

\* _get_cases_to_update, the loop of lines 360-362 from case i
RECURSIVE cases_to_update_from(_, _, _, _, _, _)
cases_to_update_from(template_ids, template_case_ids, case_data, template_field_id, i, cases_to_update) ==
    IF i > Len(case_data) THEN cases_to_update
    ELSE IF ~ has_field(case_data[i], template_field_id)
    THEN cases_to_update       \* KeyError, caught at line 364
    ELSE LET tid == case_data[i][template_field_id]
         IN  IF (\E k \in 1..Len(template_ids) : template_ids[k] = tid)
                 /\ ~ in_list(case_data[i].id, template_case_ids)
             THEN cases_to_update_from(template_ids, template_case_ids, case_data,
                      template_field_id, i + 1,
                      dict_set(cases_to_update, tid,
                               Append(dict_get(cases_to_update, tid), i)))
             ELSE cases_to_update_from(template_ids, template_case_ids, case_data,
                      template_field_id, i + 1, cases_to_update)

\* _get_cases_to_update: every template id gets a list, empty at first
get_cases_to_update(template_ids, template_case_ids, case_data, template_field_id) ==
    cases_to_update_from(template_ids, template_case_ids, case_data, template_field_id, 1,
        [k \in 1..Len(template_ids) |-> [key |-> template_ids[k], value |-> <<>>]])

\* a variant that expands whenever child expansion is enabled
expand_sections_needed_ignoring_ids(obj) == obj.get_all_child_sections

\* line 148: whether the sections are fetched and the section ids expanded
expand_sections_needed(obj) ==
    obj.get_all_child_sections /\ Len(The(obj.template_src_section_ids)) > 0

\* the branch of lines 153-163 as written: section scope is taken when
\* case ids were given
select_templates(obj, case_data) ==
    IF obj.template_src_case_ids = None \/ Len(The(obj.template_src_case_ids)) > 0
    THEN LET template_case_data_ == get_template_cases_from_secs(case_data,
                 The(obj.template_src_section_ids), The(obj.template_id_field_name))
         IN  [ templates |-> template_case_data_,
               template_src_case_ids |->
                   get_case_ids_from_case_data(dict_values(template_case_data_), case_data) ]
    ELSE [ templates |-> get_template_cases_from_case_ids(The(obj.template_src_case_ids),
                             case_data, The(obj.template_id_field_name)),
           template_src_case_ids |-> The(obj.template_src_case_ids) ]

\* the order in which the loops of lines 190-192 visit (template, candidate)
RECURSIVE update_order(_, _, _)
update_order(template_test_cases, cases_to_update, k) ==
    IF k > Len(template_test_cases) THEN <<>>
    ELSE LET template_id == template_test_cases[k].key
             candidates == IF dict_has(cases_to_update, template_id)
                           THEN dict_get(cases_to_update, template_id) ELSE <<>>
         IN  [j \in 1..Len(candidates) |->
                 [template |-> template_test_cases[k].value, case |-> candidates[j]]]
             \o update_order(template_test_cases, cases_to_update, k + 1)

\* the loop over self._fields_to_template (lines 195-227) from field k, for
\* one candidate: the record as updated so far, change_made, and whether a
\* KeyError or TypeError ended it
RECURSIVE merge_fields(_, _, _, _, _, _)
merge_fields(template_data, case_to_update, fields, k, marker, change_made) ==
    IF k > Len(fields)
    THEN [record |-> case_to_update, changed |-> change_made, raised |-> FALSE]
    ELSE IF ~ has_field(template_data, fields[k]) \/ ~ has_field(case_to_update, fields[k])
    THEN [record |-> case_to_update, changed |-> change_made, raised |-> TRUE]
    ELSE LET r == merge_field(template_data[fields[k]], case_to_update[fields[k]], marker)
         IN  IF r.raised
             THEN [record |-> case_to_update, changed |-> change_made, raised |-> TRUE]
             ELSE merge_fields(template_data,
                               [case_to_update EXCEPT ![fields[k]] = r.value],
                               fields, k + 1, marker, change_made \/ r.changed)

\* a variant that writes on a dry run too
persist_needed_ignoring_dry_run(dry, change_made) == change_made

\* a variant that writes unchanged candidates too
persist_needed_unchanged_too(dry, change_made) == dry = FALSE

\* line 229: whether the candidate is written
persist_needed(dry, change_made) == dry = FALSE /\ change_made = TRUE

\* a variant that takes every returned result for a success
update_test_case_unchecked(update_result) == TRUE

\* _update_test_case: 'error' not in update_result, for a call that returned
update_test_case(update_result) == update_result # "error"

\* ------------------------------------------------------------------------
\* Inputs of a run
\* ------------------------------------------------------------------------

ProjectIds == {None, Some(1)}

SuiteIds == {None, Some(1)}

TemplateIdFields == {None, Some("custom_templateid")}

FieldsCsvs == {None, Some(<<"">>), Some(<<"title">>), Some(<<"title", "custom_steps">>)}

SectionIdsCsvs == {None, Some(<<1>>)}

CaseIdsCsvs == {None, Some(<<1>>)}

MarkerOverrides == {None, Some(<<"#">>)}

\* what suites_get_default_suite returns: the first suite's id, -1 on error
DefaultSuiteResults == {1, -1}

\* fixtures.py sections_list
sections_list ==
    <<Section(1, NoParent), Section(2, NoParent), Section(3, 1),
      Section(4, 3), Section(5, 2), Section(6, 5)>>

\* what retrieve_sections_data returns: the sections, [] when the call raised
SectionsResults == {sections_list, <<>>}

\* how update_case ends: a result without 'error', a result with 'error',
\* an exception
UpdateResults == {"ok", "error", "raise"}

Step1 == Step(<<"1">>, <<"e">>)

Step2 == Step(<<"2">>, <<"e">>)

Step2Modified == Step(<<"2", "x">>, <<"e">>)

MarkerStep == Step(<<"#">>, <<>>)

Step4 == Step(<<"4">>, <<"e">>)

\* the cases a project may hold, but for their ids: two template cases with
\* the same template id (sections 1 and 3), and cases derived from them
CaseBodies ==
    { [section_id |-> 1, custom_templateid |-> PyInt(1),
       title |-> PyStr(<<"B", "a", "s", "e">>),
       custom_steps |-> PyList(<<Step1, Step2>>)],
      [section_id |-> 3, custom_templateid |-> PyInt(1),
       title |-> PyStr(<<"O", "l", "d">>),
       custom_steps |-> PyList(<<Step1>>)],
      [section_id |-> 5, custom_templateid |-> PyInt(1),
       title |-> PyStr(<<"O", "l", "d", "#", "x">>),
       custom_steps |-> PyList(<<Step1, Step2Modified, MarkerStep, Step4>>)],
      [section_id |-> 5, custom_templateid |-> PyInt(1),
       title |-> PyStr(<<"B", "a", "s", "e">>),
       custom_steps |-> PyList(<<Step1, Step2>>)],
      [section_id |-> 5, custom_templateid |-> PyInt(1),
       title |-> NoneValue,
       custom_steps |-> PyList(<<Step1>>)] }

\* a case of the project: get_cases gives the k-th case the id k
Case(id, body) ==
    [id |-> id, section_id |-> body.section_id,
     custom_templateid |-> body.custom_templateid,
     title |-> body.title, custom_steps |-> body.custom_steps]

\* what get_cases may return
CaseLists ==
    UNION { { [i \in 1..k |-> Case(i, bodies[i])] : bodies \in [1..k -> CaseBodies] } :
            k \in 0..MaxCases }

\* ------------------------------------------------------------------------
\* A run: __init__, then execute_templater
\* ------------------------------------------------------------------------

\* an API call as recorded in calls
Call(op, case_id, record, result) ==
    [op |-> op, case_id |-> case_id, record |-> record, result |-> result]

\* a record logged with _log.error or _log.exception: the function logging
\* it and the case id its message names (0: the message names no case)
LogRecord(level, by, case_id) == [level |-> level, by |-> by, case_id |-> case_id]

\* a selection helper's loop raised KeyError: some case it examined lacks
\* the template id field
secs_selection_raised(case_data, section_ids, template_id_field) ==
    \E i \in 1..Len(case_data) :
        in_list(case_data[i].section_id, section_ids)
            /\ ~ has_field(case_data[i], template_id_field)

case_ids_selection_raised(case_data, src_template_case_ids, template_id_field) ==
    \E i \in 1..Len(case_data) :
        in_list(case_data[i].id, src_template_case_ids)
            /\ ~ has_field(case_data[i], template_id_field)

cases_to_update_raised(case_data, template_field_id) ==
    \E i \in 1..Len(case_data) : ~ has_field(case_data[i], template_field_id)

MergeIdle ==
    /\ m_template = NoneValue
    /\ m_prev = NoneValue
    /\ m_case = NoneValue
    /\ m_changed = FALSE
    /\ m_raised = FALSE
    /\ m_count = 0

SecIdle ==
    /\ s_sections = <<>>
    /\ s_roots = <<>>
    /\ s_result = <<>>
    /\ s_outcome = "none"
    /\ s_count = 0

ProcIdle ==
    /\ p_instances = <<>>
    /\ p_used = <<>>

\* the state after TestRailTemplater(...)
Init ==
    /\ \E tr_proj_id \in ProjectIds, template_id_field \in TemplateIdFields,
          template_fields_csv \in FieldsCsvs, section_ids_csv \in SectionIdsCsvs,
          case_ids_csv \in CaseIdsCsvs, tr_suite_id \in SuiteIds,
          end_marker_override \in MarkerOverrides,
          get_all_child_sections \in BOOLEAN :
            /\ end_marker = init_end_marker(DefaultEndMarker, end_marker_override)
            /\ args = Args(tr_proj_id, template_id_field, template_fields_csv,
                           section_ids_csv, case_ids_csv, tr_suite_id,
                           end_marker_override, get_all_child_sections)
            /\ self = init(tr_proj_id, template_id_field, template_fields_csv,
                           section_ids_csv, case_ids_csv, tr_suite_id,
                           get_all_child_sections)
    /\ dry_run = FALSE
    /\ pc = "constructed"
    /\ test_case_data = <<>>
    /\ fetched = <<>>
    /\ template_case_data = <<>>
    /\ test_cases_to_update = <<>>
    /\ work = <<>>
    /\ pos = 1
    /\ cases_updated = <<>>
    /\ calls = <<>>
    /\ outcome = "running"
    /\ log = IF args.template_fields_csv = None
             THEN <<LogRecord("exception", "__init__", 0)>> ELSE <<>>
    /\ MergeIdle
    /\ SecIdle
    /\ ProcIdle

\* execute_templater, lines 134-140: the default suite is resolved, then
\* the parameters are verified.  _verify_params reads attributes that a
\* failed __init__ left unset: AttributeError, unless the project id check
\* returned first.
ExecuteTemplater ==
    /\ pc = "constructed"
    /\ \E dry \in BOOLEAN, default_suite \in DefaultSuiteResults :
        LET resolve == self.tr_suite_id = None
            obj == IF resolve THEN [self EXCEPT !.tr_suite_id = Some(default_suite)]
                   ELSE self
        IN  /\ dry_run' = dry
            /\ self' = obj
            /\ calls' = IF resolve
                        THEN Append(calls, Call("get_suites", 0, <<>>,
                                         IF default_suite = -1 THEN "error" ELSE "ok"))
                        ELSE calls
            /\ IF ~ obj.attrs_set /\ obj.tr_proj_id # None
               THEN pc' = "done" /\ outcome' = "AttributeError"
               ELSE IF ~ verify_params(obj)
               THEN pc' = "done" /\ outcome' = "return 1"
               ELSE pc' = "fetch" /\ outcome' = outcome
            /\ log' = log
                 \o (IF resolve /\ default_suite = -1
                     THEN <<LogRecord("error", "suites_get_default_suite", 0)>> ELSE <<>>)
                 \o (IF (obj.attrs_set \/ obj.tr_proj_id = None) /\ ~ verify_params(obj)
                     THEN <<LogRecord("error", "_verify_params", 0),
                            LogRecord("error", "execute_templater", 0)>>
                     ELSE <<>>)
    /\ UNCHANGED <<end_marker, args, test_case_data, fetched, template_case_data,
                   test_cases_to_update, work, pos, cases_updated, merge_vars, sec_vars, proc_vars>>

\* line 145, retrieve_testcase_data: the cases, [] when get_cases raised
RetrieveTestcaseData ==
    /\ pc = "fetch"
    /\ \E data \in CaseLists, result \in {"ok", "raise"} :
        /\ result = "raise" => data = <<>>
        /\ test_case_data' = data
        /\ fetched' = data
        /\ calls' = Append(calls, Call("get_cases", 0, <<>>, result))
        /\ log' = IF result = "raise"
                  THEN Append(log, LogRecord("exception", "retrieve_testcase_data", 0))
                  ELSE log
    /\ pc' = IF expand_sections_needed(self) THEN "sections" ELSE "select"
    /\ UNCHANGED <<end_marker, args, self, dry_run, template_case_data, test_cases_to_update,
                   work, pos, cases_updated, outcome, merge_vars, sec_vars, proc_vars>>

\* lines 148-150: the sections are fetched and the section ids expanded
ExpandSections ==
    /\ pc = "sections"
    /\ \E sections_data \in SectionsResults :
        /\ calls' = Append(calls, Call("get_sections", 0, <<>>,
                                       IF sections_data = <<>> THEN "raise" ELSE "ok"))
        /\ log' = IF sections_data = <<>>
                  THEN Append(log, LogRecord("exception", "retrieve_sections_data", 0))
                  ELSE log
        /\ self' = [self EXCEPT !.template_src_section_ids =
                      Some(get_child_sections(The(self.template_src_section_ids),
                                              sections_data))]
    /\ pc' = "select"
    /\ UNCHANGED <<end_marker, args, dry_run, test_case_data, fetched, template_case_data,
                   test_cases_to_update, work, pos, cases_updated, outcome, merge_vars, sec_vars, proc_vars>>

\* lines 153-167: the template cases, then the cases to update
SelectCases ==
    /\ pc = "select"
    /\ LET sel == select_templates(self, test_case_data)
           to_update == get_cases_to_update(dict_keys(sel.templates),
                            sel.template_src_case_ids, test_case_data,
                            The(self.template_id_field_name))
       IN  /\ template_case_data' = sel.templates
           /\ self' = [self EXCEPT !.template_src_case_ids = Some(sel.template_src_case_ids)]
           /\ test_cases_to_update' = to_update
           /\ work' = update_order(sel.templates, to_update, 1)
           /\ log' = log
                \o (IF self.template_src_case_ids = None
                       \/ Len(The(self.template_src_case_ids)) > 0
                    THEN IF secs_selection_raised(test_case_data,
                                The(self.template_src_section_ids),
                                The(self.template_id_field_name))
                         THEN <<LogRecord("exception", "_get_template_cases_from_secs", 0)>>
                         ELSE <<>>
                    ELSE IF case_ids_selection_raised(test_case_data,
                                The(self.template_src_case_ids),
                                The(self.template_id_field_name))
                         THEN <<LogRecord("exception",
                                          "_get_template_cases_from_case_ids", 0)>>
                         ELSE <<>>)
                \o (IF cases_to_update_raised(test_case_data,
                                              The(self.template_id_field_name))
                    THEN <<LogRecord("exception", "_get_cases_to_update", 0)>>
                    ELSE <<>>)
    /\ pos' = 1
    /\ pc' = "update"
    /\ UNCHANGED <<end_marker, args, dry_run, test_case_data, fetched, cases_updated, calls,
                   outcome, merge_vars, sec_vars, proc_vars>>

\* one pass of the inner loop of _update_test_cases, lines 192-231: the
\* fields of one candidate are merged in place and the case is written.  An
\* exception, of the merge or of update_case, leaves both loops (line 233).
UpdateTestCase ==
    /\ pc = "update"
    /\ pos <= Len(work)
    /\ LET ref == work[pos].case
           m == merge_fields(test_case_data[work[pos].template], test_case_data[ref],
                             The(self.fields_to_template), 1, end_marker, FALSE)
       IN  /\ test_case_data' = [test_case_data EXCEPT ![ref] = m.record]
           /\ IF m.raised
              THEN /\ pc' = "report"
                   /\ log' = Append(log, LogRecord("exception", "_update_test_cases", 0))
                   /\ UNCHANGED <<calls, cases_updated>>
              ELSE IF persist_needed(dry_run, m.changed)
              THEN \E result \in UpdateResults :
                      /\ calls' = Append(calls,
                                         Call("update_case", m.record.id, m.record, result))
                      /\ log' = IF result = "raise"
                                THEN Append(log, LogRecord("exception",
                                                           "_update_test_cases", 0))
                                ELSE log
                      /\ cases_updated' = IF result # "raise" /\ update_test_case(result)
                                          THEN Append(cases_updated, int_str(m.record.id))
                                          ELSE cases_updated
                      /\ pc' = IF result = "raise" THEN "report" ELSE "update"
              ELSE /\ pc' = "update"
                   /\ UNCHANGED <<calls, cases_updated, log>>
    /\ pos' = pos + 1
    /\ UNCHANGED <<end_marker, args, self, dry_run, fetched, template_case_data,
                   test_cases_to_update, work, outcome, merge_vars, sec_vars, proc_vars>>

\* lines 172-175: the updated ids are logged, execute_templater returns 0
Report ==
    /\ \/ pc = "report"
       \/ pc = "update" /\ pos > Len(work)
    /\ pc' = "done"
    /\ outcome' = "return 0"
    /\ UNCHANGED <<end_marker, args, self, dry_run, test_case_data, fetched, template_case_data,
                   test_cases_to_update, work, pos, cases_updated, calls, log, merge_vars,
                   sec_vars, proc_vars>>

Next ==
    \/ ExecuteTemplater
    \/ RetrieveTestcaseData
    \/ ExpandSections
    \/ SelectCases
    \/ UpdateTestCase
    \/ Report

Spec == Init /\ [][Next]_vars

\* ------------------------------------------------------------------------
\* The field merge on its own: one configured field of one candidate,
\* merged against the template's value once per run
\* ------------------------------------------------------------------------

Alphabet == {"A", "#"}

Strings(n) == UNION {[1..k -> Alphabet] : k \in 0..n}

Markers == {<<"#">>, <<"#", "#">>}

StepPool == {Step(<<"A">>, <<"E">>), Step(<<"A">>, <<>>), Step(<<"A", "#">>, <<>>)}

StepLists(n) == UNION {[1..k -> StepPool] : k \in 0..n}

ScalarValues == {PyInt(5), PyInt(7), NoneValue}

\* the strings of the documented examples, marker "!M!"
ExampleMarker == <<"!", "M", "!">>

ExampleTemplates == {<<"A">>, <<"A", " ">>, <<"A", "2">>}

ExampleCandidates == {<<"A", " ", "!", "M", "!", " ", "B">>, <<"A", " ", "B">>}

\* (marker, template value, candidate value) triples the merge is run on
MergeInputs ==
    {<<mk, PyStr(t), PyStr(c)>> :
        mk \in Markers, t \in Strings(MaxTplLen), c \in Strings(MaxStrLen)}
    \cup {<<mk, PyList(t), PyList(c)>> :
        mk \in Markers, t \in StepLists(MaxTplSteps), c \in StepLists(MaxSteps)}
    \cup {<<ExampleMarker, PyStr(t), PyStr(c)>> :
        t \in ExampleTemplates, c \in ExampleCandidates}
    \cup {<<<<"#">>, t, c>> :
        t \in ScalarValues,
        c \in ScalarValues \cup {PyStr(<<"A", "#", "B">>), PyList(<<Step(<<"A">>, <<>>)>>)}}
    \cup {<<<<"#">>, t, c>> :
        t \in {PyStr(<<"A">>), PyList(<<Step(<<"A">>, <<>>)>>)},
        c \in ScalarValues \cup {PyStr(<<>>), PyList(<<>>)}}

\* no templater is running
RunIdle ==
    /\ args = Args(None, None, None, None, None, None, None, FALSE)
    /\ self = init(None, None, None, None, None, None, FALSE)
    /\ dry_run = FALSE
    /\ pc = "idle"
    /\ test_case_data = <<>>
    /\ fetched = <<>>
    /\ template_case_data = <<>>
    /\ test_cases_to_update = <<>>
    /\ work = <<>>
    /\ pos = 1
    /\ cases_updated = <<>>
    /\ calls = <<>>
    /\ outcome = "running"
    /\ log = <<>>

InitMerge ==
    /\ \E inp \in MergeInputs :
        /\ end_marker = inp[1]
        /\ m_template = inp[2]
        /\ m_prev = inp[3]
        /\ m_case = inp[3]
    /\ m_changed = FALSE
    /\ m_raised = FALSE
    /\ m_count = 0
    /\ RunIdle
    /\ SecIdle
    /\ ProcIdle

\* one pass of lines 196-227 over the field
MergeField ==
    /\ m_count < MaxMerges
    /\ ~ m_raised
    /\ LET r == merge_field(m_template, m_case, end_marker)
       IN  /\ m_prev' = m_case
           /\ m_case' = r.value
           /\ m_changed' = r.changed
           /\ m_raised' = r.raised
    /\ m_count' = m_count + 1
    /\ UNCHANGED <<end_marker, m_template, run_vars, sec_vars, proc_vars>>

NextMerge == MergeField

SpecMerge == InitMerge /\ [][NextMerge]_vars

\* ------------------------------------------------------------------------
\* The selection on its own: lines 153-167 on the cases of a fetch whose
\* template id field holds 1, 2 or null
\* ------------------------------------------------------------------------

SelectTemplateIds == {PyInt(1), PyInt(2), NoneValue}

SelectSectionIds == {1, 5}

SelectBodies ==
    { [section_id |-> sec, custom_templateid |-> tid,
       title |-> PyStr(<<"B", "a", "s", "e">>), custom_steps |-> PyList(<<>>)] :
      sec \in SelectSectionIds, tid \in SelectTemplateIds }

SelectCaseLists ==
    UNION { { [i \in 1..k |-> Case(i, bodies[i])] : bodies \in [1..k -> SelectBodies] } :
            k \in 0..MaxSelectCases }

SelectCaseIdsCsvs == {None, Some(<<1>>), Some(<<1, 2>>)}

\* the state of a run after the fetch: a valid configuration with a suite
\* id and without section expansion, the cases fetched
InitSelect ==
    /\ \E section_ids_csv \in SectionIdsCsvs, case_ids_csv \in SelectCaseIdsCsvs,
          data \in SelectCaseLists :
            /\ args = Args(Some(1), Some("custom_templateid"), Some(<<"title">>),
                           section_ids_csv, case_ids_csv, Some(1), None, FALSE)
            /\ self = init(Some(1), Some("custom_templateid"), Some(<<"title">>),
                           section_ids_csv, case_ids_csv, Some(1), FALSE)
            /\ test_case_data = data
            /\ fetched = data
    /\ end_marker = DefaultEndMarker
    /\ dry_run = FALSE
    /\ pc = "select"
    /\ template_case_data = <<>>
    /\ test_cases_to_update = <<>>
    /\ work = <<>>
    /\ pos = 1
    /\ cases_updated = <<>>
    /\ calls = <<Call("get_cases", 0, <<>>, "ok")>>
    /\ outcome = "running"
    /\ log = <<>>
    /\ MergeIdle
    /\ SecIdle
    /\ ProcIdle

NextSelect == SelectCases

SpecSelect == InitSelect /\ [][NextSelect]_vars

\* ------------------------------------------------------------------------
\* get_child_sections on its own: section data with ids 1..n and any
\* parent references (forests, and corrupt data with cycles), applied to a
\* list of section ids and then again to the ids it returned
\* ------------------------------------------------------------------------

\* section data: the sections 1..n, each with no parent or any parent id
SectionLists ==
    UNION { { [i \in 1..n |-> Section(i, parents[i])] :
                parents \in [1..n -> {NoParent} \cup (1..n)] } :
            n \in 0..MaxSections }

\* the section ids given: any ids, repeated or not, known or not
RootLists == UNION {[1..k -> 1..MaxSections] : k \in 0..MaxRoots}

InitSections ==
    /\ s_sections \in SectionLists
    /\ s_roots \in RootLists
    /\ s_result = <<>>
    /\ s_outcome = "none"
    /\ s_count = 0
    /\ end_marker = DefaultEndMarker
    /\ RunIdle
    /\ MergeIdle
    /\ ProcIdle

\* one call of get_child_sections, lines 106-119.  Both helpers catch every
\* exception (lines 115 and 169), so the call always returns its list.
GetChildSections ==
    /\ s_count < MaxResolves
    /\ LET template_section_ids == IF s_count = 0 THEN s_roots ELSE s_result
       IN  /\ s_roots' = template_section_ids
           /\ s_result' = get_child_sections(template_section_ids, s_sections)
    /\ s_outcome' = "returned"
    /\ s_count' = s_count + 1
    /\ UNCHANGED <<end_marker, s_sections, run_vars, merge_vars, proc_vars>>

NextSections == GetChildSections

SpecSections == InitSections /\ [][NextSections]_vars

\* ------------------------------------------------------------------------
\* One process: templaters are constructed and run in any order
\* ------------------------------------------------------------------------

\* the overrides a constructor may be given
ProcessOverrides == {None, Some(<<"#">>), Some(<<"#", "#">>)}

\* the title of the template case and of the candidate every run merges
ProcessTemplateTitle == PyStr(<<"O", "l", "d">>)

ProcessCandidateTitle == PyStr(<<"X", "#", "y">> \o DefaultEndMarker \o <<"z">>)

InitProcess ==
    /\ end_marker = DefaultEndMarker
    /\ p_instances = <<>>
    /\ p_used = <<>>
    /\ RunIdle
    /\ MergeIdle
    /\ SecIdle

\* TestRailTemplater(..., end_marker_override = ...)
Construct ==
    /\ Len(p_instances) < MaxInstances
    /\ \E end_marker_override \in ProcessOverrides :
        /\ end_marker' = init_end_marker(end_marker, end_marker_override)
        /\ p_instances' = Append(p_instances, Templater(end_marker_override))
    /\ UNCHANGED <<p_used, run_vars, merge_vars, sec_vars>>

\* execute_templater of one of the templaters constructed so far: the
\* marker its merges read, and the title it gives the candidate
RunTemplater ==
    /\ Len(p_used) < MaxRuns
    /\ \E k \in 1..Len(p_instances) :
        LET marker == self_end_marker(p_instances[k], end_marker)
        IN  p_used' = Append(p_used,
                [instance |-> k, constructed |-> Len(p_instances), marker |-> marker,
                 title |-> merge_field(ProcessTemplateTitle, ProcessCandidateTitle,
                                       marker).value])
    /\ UNCHANGED <<end_marker, p_instances, run_vars, merge_vars, sec_vars>>

NextProcess == Construct \/ RunTemplater

SpecProcess == InitProcess /\ [][NextProcess]_vars

\* ========================================================================
\* Claims about the field merge (checked under SpecMerge)
\* ========================================================================

\* a merge of a string candidate against a string template has just run
StringMerged ==
    /\ m_count > 0
    /\ m_template.kind = "str"
    /\ m_prev.kind = "str"

\* a merge of a steps candidate against a steps template has just run
StepsMerged ==
    /\ m_count > 0
    /\ m_template.kind = "list"
    /\ m_prev.kind = "list"

\* position (1-based) of the first marker occurrence in the candidate string
FirstMarker == str_find(m_prev.val, end_marker, 1)

\* the candidate's text before the first marker occurrence
OwnedPrefix == SubSeq(m_prev.val, 1, FirstMarker - 1)

\* all the candidate's text after the first marker occurrence
TextAfterMarker == SubSeq(m_prev.val, FirstMarker + Len(end_marker), Len(m_prev.val))

\* the candidate steps whose content contains the marker (1-based positions)
MarkerSteps ==
    {i \in 1..Len(m_prev.val) : str_contains(m_prev.val[i].content, end_marker)}

\* 0-based index of the first marker step, -1 when there is none
Cut == IF MarkerSteps = {} THEN -1
       ELSE (CHOOSE i \in MarkerSteps : \A k \in MarkerSteps : i <= k) - 1

\* the candidate steps from the first marker step onward, inclusive
FromCut == IF Cut = -1 THEN <<>> ELSE SubSeq(m_prev.val, Cut + 1, Len(m_prev.val))

\* the "already templated" condition on the candidate steps
AlreadyTemplated ==
    /\ Len(m_prev.val) >= Len(m_template.val)
    /\ Cut = -1 \/ Cut = Len(m_template.val)
    /\ \A i \in 1..Len(m_template.val) : m_prev.val[i] = m_template.val[i]

\* C1: for a string template T and a candidate C # T that contains the
\* marker, with P the text of C before the first marker and tail all the
\* text after it, T # P implies that the merged value is T + marker + tail
\* and that the field changed.
C1_TailAfterFirstMarkerKept ==
    (StringMerged /\ m_prev.val # m_template.val /\ FirstMarker # 0
        /\ m_template.val # OwnedPrefix)
    => (m_case = PyStr(m_template.val \o end_marker \o TextAfterMarker) /\ m_changed)

\* C3: a steps candidate that is not already templated becomes the template
\* sequence when no step holds the marker, the template sequence followed
\* by candidate[cut:] when the first marker step is at cut; the field
\* changed in both cases.
C3_StepsMergeResult ==
    (StepsMerged /\ ~ AlreadyTemplated)
    => /\ m_changed
       /\ Cut = -1 => m_case = PyList(m_template.val)
       /\ Cut >= 0 => m_case = PyList(m_template.val \o FromCut)

C3_Witness ==
    /\ StepsMerged /\ ~ AlreadyTemplated
    /\ Cut >= 0
    /\ Len(m_template.val) > 0
    /\ Len(FromCut) > 1
    /\ m_changed
    /\ m_case = PyList(m_template.val \o FromCut)

\* C4 as stated: a steps candidate shorter than the template is replaced by
\* exactly the template sequence, marker or not.
C4_ShorterFullyReplaced ==
    (StepsMerged /\ Len(m_prev.val) < Len(m_template.val))
    => m_case = PyList(m_template.val)

\* C4 amended: a steps candidate shorter than the template always changes;
\* it becomes the template sequence when no candidate step holds the
\* marker, and the template sequence followed by the candidate steps from
\* the first marker step onward when one does.
C4_ShorterGrowsToTemplate ==
    (StepsMerged /\ Len(m_prev.val) < Len(m_template.val))
    => /\ m_changed
       /\ m_case.kind = "list"
       /\ SubSeq(m_case.val, 1, Len(m_template.val)) = m_template.val
       /\ SubSeq(m_case.val, Len(m_template.val) + 1, Len(m_case.val)) = FromCut

C4_Witness ==
    /\ StepsMerged
    /\ Len(m_prev.val) < Len(m_template.val)
    /\ Len(m_prev.val) > 0
    /\ MarkerSteps = {}
    /\ m_changed
    /\ m_case = m_template

\* the documented example: template "A", candidate "A !M! B", marker "!M!"
ExampleApplied ==
    /\ m_count = 1
    /\ end_marker = ExampleMarker
    /\ m_prev = PyStr(<<"A", " ", "!", "M", "!", " ", "B">>)

C18_StepsUnchangedIffTemplated ==
    StepsMerged =>
        /\ ~ m_changed <=> AlreadyTemplated
        /\ ~ m_changed => m_case = m_prev

C18_Witness ==
    /\ StepsMerged
    /\ AlreadyTemplated
    /\ Cut = Len(m_template.val)
    /\ Cut > 0
    /\ Len(m_prev.val) > Cut + 1
    /\ ~ m_changed
    /\ m_case = m_prev

\* C19: a string candidate that does not contain the marker is left exactly
\* as it was, changed = false, whatever the template string is.
C19_NoMarkerLeftAlone ==
    (StringMerged /\ FirstMarker = 0) => (m_case = m_prev /\ ~ m_changed)

C19_Witness ==
    /\ StringMerged
    /\ end_marker = ExampleMarker
    /\ m_template = PyStr(<<"A", "2">>)
    /\ m_prev = PyStr(<<"A", " ", "B">>)
    /\ m_case = m_prev
    /\ ~ m_changed

\* a merge against a template value that is neither a string nor a list
\* has just run
ScalarMerged ==
    /\ m_count > 0
    /\ m_template.kind \notin {"str", "list"}

\* C20: against a template value that is neither a string nor a list the
\* field changed exactly when the candidate value differed from the
\* template value, and a changed candidate holds the template value.
C20_ScalarMerge ==
    ScalarMerged =>
        /\ ~ m_raised
        /\ m_changed <=> m_prev # m_template
        /\ m_changed => m_case = m_template
        /\ ~ m_changed => m_case = m_prev

C20_Witness ==
    /\ ScalarMerged
    /\ m_template = PyInt(5)
    /\ m_prev = PyInt(7)
    /\ m_case = PyInt(5)
    /\ m_changed

\* C24: merging a template string into a candidate string a second time
\* reports changed = false and leaves the value as the first merge made it.
C24_StringMergeIdempotent ==
    (StringMerged /\ m_count = 2) => (~ m_changed /\ m_case = m_prev)

\* C25: after one merge of a template steps list the candidate is already
\* templated: a second merge reports changed = false and the candidate's
\* steps list is as the first merge made it, no longer.
C25_StepsMergeIdempotent ==
    (StepsMerged /\ m_count = 2)
    => /\ AlreadyTemplated
       /\ ~ m_changed
       /\ m_case = m_prev

\* C27: a candidate string that contains the marker is, after the merge,
\* still a string that ends with the marker followed by all the text the
\* candidate had after its first marker, whether the template value is a
\* string, a number or null.
C27_MarkerTextSurvives ==
    (/\ m_count = 1
     /\ m_prev.kind = "str"
     /\ m_template.kind \in {"str", "int", "none"}
     /\ FirstMarker # 0)
    => /\ m_case.kind = "str"
       /\ Len(m_case.val) >= Len(end_marker \o TextAfterMarker)
       /\ SubSeq(m_case.val, Len(m_case.val) - Len(end_marker \o TextAfterMarker) + 1,
                 Len(m_case.val)) = end_marker \o TextAfterMarker

\* ========================================================================
\* Claims about a run (checked under Spec)
\* ========================================================================

\* the template cases and the cases to update have been selected
Selected == pc \in {"update", "report"} \/ (pc = "done" /\ outcome = "return 0")

\* execute_templater returned after the update loop
Finished == pc = "done" /\ outcome = "return 0"

\* the section ids and case ids the templater was configured with
ConfiguredSectionIds ==
    IF args.section_ids_csv = None THEN <<>> ELSE The(args.section_ids_csv)

ConfiguredCaseIds ==
    IF args.case_ids_csv = None THEN <<>> ELSE The(args.case_ids_csv)

\* the fetched cases (as indexes) located in the resolved template sections
CasesInSections ==
    {i \in 1..Len(fetched) :
        in_list(fetched[i].section_id, The(self.template_src_section_ids))}

\* the fetched cases (as indexes) whose id is among the configured case ids
CasesWithIds ==
    {i \in 1..Len(fetched) : in_list(fetched[i].id, ConfiguredCaseIds)}

\* the template map holds cases of S only, and a template for every case of S
TemplatesBuiltFrom(S) ==
    /\ \A k \in 1..Len(template_case_data) : template_case_data[k].value \in S
    /\ \A i \in S :
          dict_has(template_case_data, fetched[i][The(args.template_id_field)])

\* the update_case calls made so far
UpdateCalls == SelectSeq(calls, LAMBDA c : c.op = "update_case")

\* the merge of the k-th (template, candidate) pair, from the fetched records
MergeOf(k) ==
    merge_fields(fetched[work[k].template], fetched[work[k].case],
                 The(self.fields_to_template), 1, end_marker, FALSE)

\* the id of the k-th candidate in processing order
CandidateId(k) == fetched[work[k].case].id

\* update_case was called for the k-th candidate and ended with result r
Persisted(k, r) ==
    \E j \in 1..Len(calls) :
        /\ calls[j].op = "update_case"
        /\ calls[j].case_id = CandidateId(k)
        /\ calls[j].result = r

\* C2: with section ids configured the template map is built from the
\* cases located in those sections; with no section ids and case ids given
\* it is built from exactly the cases with those ids.
C2_TemplateSelectionMode ==
    Selected =>
        /\ Len(ConfiguredSectionIds) > 0 => TemplatesBuiltFrom(CasesInSections)
        /\ (Len(ConfiguredSectionIds) = 0 /\ Len(ConfiguredCaseIds) > 0)
              => TemplatesBuiltFrom(CasesWithIds)

\* a configuration that validation is to reject
InvalidConfiguration ==
    \/ args.tr_proj_id = None
    \/ args.template_id_field = None
    \/ args.template_fields_csv = None
    \/ args.section_ids_csv = None /\ args.case_ids_csv = None

\* C6: a run with an invalid configuration (no project id, no template id
\* field name, no field to template, neither section ids nor case ids)
\* ends in failure without a case fetch, a merge or an update.
C6_InvalidConfigurationRejected ==
    (pc # "constructed" /\ InvalidConfiguration)
    => /\ pc = "done"
       /\ outcome \in {"return 1", "AttributeError"}
       /\ \A j \in 1..Len(calls) : calls[j].op \notin {"get_cases", "update_case"}
       /\ test_case_data = fetched

\* C7: when validation fails, no call was made to the TestRail API before
\* the run aborted, also when no suite id was supplied.
C7_NoCallBeforeValidationFails ==
    (pc = "done" /\ outcome = "return 1") => calls = <<>>

\* C8: if update_case fails for one changed candidate, every candidate of
\* the run is still merged and, if changed on a run that is not dry,
\* passed to update_case (runs where the merge itself raises are left out).
C8_FailedPersistIsolated ==
    (/\ Finished
     /\ \E j \in 1..Len(calls) :
            calls[j].op = "update_case" /\ calls[j].result \in {"error", "raise"}
     /\ \A k \in 1..Len(work) : ~ MergeOf(k).raised)
    => \A k \in 1..Len(work) :
          /\ test_case_data[work[k].case] = MergeOf(k).record
          /\ (MergeOf(k).changed /\ ~ dry_run)
                => \E r \in UpdateResults : Persisted(k, r)

\* the candidates processed so far whose fields changed and whose
\* update_case call returned without an error, in processing order
PersistedInOrder ==
    SelectSeq([k \in 1..(pos - 1) |-> k],
              LAMBDA k : /\ MergeOf(k).changed
                         /\ ~ MergeOf(k).raised
                         /\ Persisted(k, "ok"))

\* C9: on a run that is not dry, the list of updated case ids holds, in
\* processing order, exactly the candidates with a changed field whose
\* update_case call returned without an error indicator.
C9_UpdatedListExact ==
    (Selected /\ ~ dry_run)
    => cases_updated =
          [n \in 1..Len(PersistedInOrder) |-> int_str(CandidateId(PersistedInOrder[n]))]

C9_Witness ==
    /\ Finished /\ ~ dry_run
    /\ Len(cases_updated) = 1
    /\ Len(UpdateCalls) = 2
    /\ UpdateCalls[1].result = "error"
    /\ UpdateCalls[2].result = "ok"
    /\ cases_updated = <<int_str(UpdateCalls[2].case_id)>>

\* C10: a dry run makes no update_case call and reports no updated case,
\* while every candidate is still merged in memory (as long as no merge
\* raises).
C10_DryRunWritesNothing ==
    dry_run =>
        /\ UpdateCalls = <<>>
        /\ cases_updated = <<>>
        /\ (Finished /\ \A k \in 1..Len(work) : ~ MergeOf(k).raised)
              => \A k \in 1..Len(work) :
                    test_case_data[work[k].case] = MergeOf(k).record

C10_Witness ==
    /\ dry_run /\ Finished
    /\ \E k \in 1..Len(work) :
          /\ MergeOf(k).changed
          /\ test_case_data[work[k].case] # fetched[work[k].case]
    /\ UpdateCalls = <<>>
    /\ cases_updated = <<>>

\* the documented scenario has run: the single field title, one template
\* case titled "Base", and two candidates of its template id titled "Old"
\* and "Base"; the run was not dry
ScenarioTitles == {PyStr(<<"O", "l", "d">>), PyStr(<<"B", "a", "s", "e">>)}

ScenarioRun ==
    /\ Finished /\ ~ dry_run
    /\ args.template_fields_csv = Some(<<"title">>)
    /\ Len(fetched) = 3
    /\ Len(template_case_data) = 1
    /\ fetched[template_case_data[1].value].title = PyStr(<<"B", "a", "s", "e">>)
    /\ Len(work) = 2
    /\ {fetched[work[k].case].title : k \in 1..2} = ScenarioTitles

\* C11 as stated: in the scenario exactly one case is reported updated, the
\* "Old" one, and its title is now "Base".
C11_ScenarioOldUpdated ==
    ScenarioRun =>
        \E k \in 1..2 :
            /\ fetched[work[k].case].title = PyStr(<<"O", "l", "d">>)
            /\ cases_updated = <<int_str(CandidateId(k))>>
            /\ test_case_data[work[k].case].title = PyStr(<<"B", "a", "s", "e">>)

\* C11 amended: in the scenario no case is reported updated, no update_case
\* call is made and both candidates keep their titles: "Old" does not hold
\* the marker, so it is left alone, and "Base" already equals the template.
C11_ScenarioNothingUpdated ==
    ScenarioRun =>
        /\ cases_updated = <<>>
        /\ UpdateCalls = <<>>
        /\ test_case_data = fetched

C11_Witness ==
    /\ ScenarioRun
    /\ \E k \in 1..2 : test_case_data[work[k].case].title = PyStr(<<"O", "l", "d">>)
    /\ cases_updated = <<>>

\* ========================================================================
\* Claims about the selection (checked under SpecSelect)
\* ========================================================================

\* the name of the template id field, and a fetched case's value in it
TemplateIdField == The(args.template_id_field)

TemplateIdOf(i) == fetched[i][TemplateIdField]

\* the cases (as indexes) placed in some candidate list
Candidates ==
    UNION { {test_cases_to_update[k].value[j] :
                j \in 1..Len(test_cases_to_update[k].value)} :
            k \in 1..Len(test_cases_to_update) }

\* the ids of the template cases, as passed to _get_cases_to_update
TemplateCaseIds == The(self.template_src_case_ids)

\* the fetched cases (as indexes, in input order) whose template id field
\* holds t and whose id is not a template case's
ExpectedCandidates(t) ==
    SelectSeq([i \in 1..Len(fetched) |-> i],
              LAMBDA i : TemplateIdOf(i) = t /\ ~ in_list(fetched[i].id, TemplateCaseIds))

\* C12: every case placed in a candidate list carries a value in the
\* template id field that is neither null nor empty and that is the
\* template id value of some selected template case.
C12_CandidateTemplateIdNonEmpty ==
    pc = "update" =>
        \A i \in Candidates :
            /\ TemplateIdOf(i) # NoneValue
            /\ TemplateIdOf(i) # PyStr(<<>>)
            /\ \E k \in 1..Len(template_case_data) :
                  TemplateIdOf(template_case_data[k].value) = TemplateIdOf(i)

\* C13: the candidate map has a key for every template id t, its list is
\* exactly the cases, in input order, whose template id field holds t and
\* whose id is not a template case's; no template case is in any list.
C13_CandidatesExact ==
    pc = "update" =>
        /\ dict_keys(test_cases_to_update) = dict_keys(template_case_data)
        /\ \A k \in 1..Len(template_case_data) :
              LET t == template_case_data[k].key
              IN  /\ dict_has(test_cases_to_update, t)
                  /\ dict_get(test_cases_to_update, t) = ExpectedCandidates(t)
        /\ \A i \in Candidates : ~ in_list(fetched[i].id, TemplateCaseIds)

C13_Witness ==
    /\ pc = "update"
    /\ Len(template_case_data) = 2
    /\ \E k \in 1..2 : test_cases_to_update[k].value = <<>>
    /\ \E k \in 1..2 : Len(test_cases_to_update[k].value) = 1
    /\ \E i \in 1..Len(fetched) :
          /\ i \notin Candidates
          /\ in_list(fetched[i].id, TemplateCaseIds)
          /\ dict_has(template_case_data, TemplateIdOf(i))

\* ========================================================================
\* Claims about get_child_sections (checked under SpecSections)
\* ========================================================================

\* the ids in a list
ToSet(l) == {l[k] : k \in 1..Len(l)}

\* the sections whose parent is in S
ChildrenOf(S) ==
    {s_sections[k].id : k \in {j \in 1..Len(s_sections) : s_sections[j].parent_id \in S}}

\* S with everything reachable from it by at most n parent == X steps
RECURSIVE Reach(_, _)
Reach(S, n) == IF n = 0 THEN S ELSE Reach(S \cup ChildrenOf(S), n - 1)

\* S and all descendants of its members
Closure(S) == Reach(S, Len(s_sections))

\* the section x is its own descendant
OnCycle(x) == x \in Reach(ChildrenOf({x}), Len(s_sections))

\* the section data is a forest
IsForest == \A k \in 1..Len(s_sections) : ~ OnCycle(s_sections[k].id)

\* C14: on a forest the ids get_child_sections returns are, as a set, the
\* given ids and all their descendants at any depth, and nothing else.
C14_DescendantClosure ==
    (s_count > 0 /\ IsForest) => ToSet(s_result) = Closure(ToSet(s_roots))

C14_Witness ==
    /\ s_count = 1 /\ IsForest
    /\ Len(s_roots) = 1
    /\ \E a, b \in ToSet(s_result) :
          /\ a \in ChildrenOf({s_roots[1]})
          /\ b \in ChildrenOf({a})

\* C15: on a forest get_child_sections returns every section id once,
\* also when a given id is a descendant of another or is repeated.
C15_NoDuplicates ==
    (s_count > 0 /\ IsForest) => Len(s_result) = Cardinality(ToSet(s_result))

\* C16: when a given id lies on a cycle of the parent references the call
\* ends with a MalformedHierarchy error instead of returning a list.
C16_CycleFails ==
    (s_count > 0 /\ \E k \in 1..Len(s_roots) : OnCycle(s_roots[k]))
    => s_outcome = "MalformedHierarchy"

\* C17: get_child_sections applied to the ids it returned gives the same
\* set of ids.
C17_ClosureIdempotent ==
    s_count >= 2 => ToSet(s_result) = ToSet(s_roots)

C17_Witness ==
    /\ s_count = 2 /\ IsForest
    /\ Cardinality(ToSet(s_result)) = 3
    /\ Len(s_roots) = 3
    /\ ToSet(s_result) = ToSet(s_roots)

\* ========================================================================
\* More claims about a run (checked under Spec)
\* ========================================================================

\* the fetched cases (as indexes) in template scope: those of the resolved
\* template sections when section ids were configured, else those with the
\* configured case ids
TemplateScope ==
    IF Len(ConfiguredSectionIds) > 0 THEN CasesInSections ELSE CasesWithIds

\* the cases in template scope whose template id field holds t
ScopeWithId(t) == {i \in TemplateScope : TemplateIdOf(i) = t}

\* the last of them in the order of the fetch
LastInScope(t) == CHOOSE i \in ScopeWithId(t) : \A j \in ScopeWithId(t) : j <= i

\* the update loop ran to its end and no merge raised
AllMerged ==
    /\ Finished
    /\ pos > Len(work)
    /\ \A k \in 1..Len(work) : ~ MergeOf(k).raised

\* C21: for every template id the template map holds the case that is last
\* in the fetch among the cases in template scope with that id, and the
\* candidates are merged from that case's field values.
C21_LastTemplateWins ==
    Selected =>
        /\ \A k \in 1..Len(template_case_data) :
              LET t == template_case_data[k].key
              IN  /\ ScopeWithId(t) # {}
                  /\ template_case_data[k].value = LastInScope(t)
        /\ AllMerged =>
              \A k \in 1..Len(work) :
                  test_case_data[work[k].case] =
                      merge_fields(fetched[LastInScope(TemplateIdOf(work[k].case))],
                                   fetched[work[k].case],
                                   The(self.fields_to_template), 1, end_marker, FALSE).record

C21_Witness ==
    /\ AllMerged
    /\ Len(template_case_data) = 1
    /\ Cardinality(ScopeWithId(template_case_data[1].key)) = 2
    /\ template_case_data[1].value = LastInScope(template_case_data[1].key)
    /\ \E i \in ScopeWithId(template_case_data[1].key), k \in 1..Len(work) :
          /\ i # template_case_data[1].value
          /\ i # work[k].case
          /\ test_case_data[work[k].case] # fetched[work[k].case]
          /\ test_case_data[work[k].case] #
                merge_fields(fetched[i], fetched[work[k].case],
                             The(self.fields_to_template), 1, end_marker, FALSE).record

\* the function whose error record reports a failed call of the operation
LoggedBy(op) ==
    CASE op = "get_suites" -> "suites_get_default_suite"
      [] op = "get_cases" -> "retrieve_testcase_data"
      [] op = "get_sections" -> "retrieve_sections_data"
      [] OTHER -> "_update_test_cases"

\* C22: every failed call of a run (a fetch of cases or sections that
\* raised, an update_case that raised or returned an error) has a record in
\* the log, and the record of a failed update_case names the case id.
C22_FailuresRecorded ==
    \A j \in 1..Len(calls) :
        calls[j].result \in {"error", "raise"} =>
            \E n \in 1..Len(log) :
                /\ log[n].by = LoggedBy(calls[j].op)
                /\ calls[j].op = "update_case" => log[n].case_id = calls[j].case_id

\* the calls of one operation made so far
CallsOf(op) == SelectSeq(calls, LAMBDA c : c.op = op)

\* the run has gone past the fetch of the cases
CasesFetchDone == pc \in {"sections", "select", "update", "report"} \/ Finished

\* section ids are configured and child expansion is enabled
ExpansionRequested == Len(ConfiguredSectionIds) > 0 /\ args.get_all_child_sections

\* C23: the cases are fetched once, before any selection, merge or update;
\* the sections are fetched (once, after the cases) only when section ids
\* are configured and child expansion is enabled, and then they are.
C23_FetchOrder ==
    /\ Len(CallsOf("get_cases")) = (IF CasesFetchDone THEN 1 ELSE 0)
    /\ ~ CasesFetchDone =>
          /\ template_case_data = <<>>
          /\ test_cases_to_update = <<>>
          /\ work = <<>>
          /\ CallsOf("update_case") = <<>>
          /\ CallsOf("get_sections") = <<>>
    /\ CallsOf("get_sections") # <<>> => ExpansionRequested
    /\ Len(CallsOf("get_sections")) <= 1
    /\ (Selected /\ ExpansionRequested) => Len(CallsOf("get_sections")) = 1
    /\ pc = "sections" => (template_case_data = <<>> /\ work = <<>>)

C23_Witness ==
    /\ Finished
    /\ Len(calls) >= 3
    /\ calls[1].op = "get_cases"
    /\ calls[2].op = "get_sections"
    /\ calls[3].op = "update_case"

\* C26: in a run with section ids configured, no case located in the
\* resolved template sections is a candidate, is modified in memory or is
\* passed to update_case.
C26_TemplateCasesNeverWritten ==
    (Selected /\ Len(ConfiguredSectionIds) > 0) =>
        \A i \in CasesInSections :
            /\ \A k \in 1..Len(work) : work[k].case # i
            /\ \A k \in 1..Len(test_cases_to_update) :
                  ~ in_list(i, test_cases_to_update[k].value)
            /\ test_case_data[i] = fetched[i]
            /\ \A j \in 1..Len(calls) :
                  calls[j].op = "update_case" => calls[j].case_id # fetched[i].id

\* C29: if the merge of one candidate fails (and no update_case raises),
\* every other candidate of the run is still merged and, if changed on a
\* run that is not dry, passed to update_case.
C29_MergeFailureIsolated ==
    (/\ Finished
     /\ \E k \in 1..Len(work) : MergeOf(k).raised
     /\ \A j \in 1..Len(calls) : calls[j].result # "raise")
    => \A k \in 1..Len(work) :
          ~ MergeOf(k).raised =>
              /\ test_case_data[work[k].case] = MergeOf(k).record
              /\ (MergeOf(k).changed /\ ~ dry_run)
                    => \E r \in UpdateResults : Persisted(k, r)

\* the field names of a case record
CaseFields == {"id", "section_id", "custom_templateid", "title", "custom_steps"}

\* the fields the run is configured to template
TemplatedFields ==
    {The(self.fields_to_template)[n] : n \in 1..Len(The(self.fields_to_template))}

\* C30: the record passed to update_case differs from the fetched record of
\* its case only in the fields to template; update_case is called only for
\* a candidate with a changed field, and at most once per case.
C30_RunFrame ==
    /\ \A j \in 1..Len(calls) :
          calls[j].op = "update_case" =>
              \E k \in 1..Len(work) :
                  /\ CandidateId(k) = calls[j].case_id
                  /\ MergeOf(k).changed
                  /\ \A f \in CaseFields \ TemplatedFields :
                        calls[j].record[f] = fetched[work[k].case][f]
    /\ \A j1, j2 \in 1..Len(calls) :
          (/\ calls[j1].op = "update_case"
           /\ calls[j2].op = "update_case"
           /\ calls[j1].case_id = calls[j2].case_id) => j1 = j2

C30_Witness ==
    /\ Finished
    /\ ~ dry_run
    /\ TemplatedFields = {"title"}
    /\ Len(work) = 2
    /\ MergeOf(1).changed
    /\ ~ MergeOf(2).changed
    /\ Len(UpdateCalls) = 1
    /\ UpdateCalls[1].case_id = CandidateId(1)
    /\ UpdateCalls[1].record.title # fetched[work[1].case].title
    /\ UpdateCalls[1].record.custom_steps = fetched[work[1].case].custom_steps
    /\ fetched[work[1].case].custom_steps # fetched[work[1].template].custom_steps

\* ========================================================================
\* Claims about one process (checked under SpecProcess)
\* ========================================================================

\* the marker the k-th templater was constructed for: its own override, the
\* default when it was given none
OwnMarker(k) ==
    IF p_instances[k].end_marker_override # None
    THEN The(p_instances[k].end_marker_override) ELSE DefaultEndMarker

\* the constructions among the first n that were given an override
Overriding(n) == {k \in 1..n : p_instances[k].end_marker_override # None}

\* the override most recently given to any of the first n constructions,
\* the default when none was given one
LastOverride(n) ==
    IF Overriding(n) = {} THEN DefaultEndMarker
    ELSE OwnMarker(CHOOSE k \in Overriding(n) : \A j \in Overriding(n) : j <= k)

\* C28 as stated: every run uses the override passed to its own templater's
\* constructor, the default when none was passed.
C28_MarkerIsolated ==
    \A n \in 1..Len(p_used) : p_used[n].marker = OwnMarker(p_used[n].instance)

\* C28 (amended): every run uses the override most recently passed to any
\* constructor of the process before the run, the default when none was.
C28_MarkerProcessWide ==
    \A n \in 1..Len(p_used) : p_used[n].marker = LastOverride(p_used[n].constructed)

C28_Witness ==
    \E n \in 1..Len(p_used) :
        /\ p_instances[p_used[n].instance].end_marker_override = None
        /\ p_used[n].instance < p_used[n].constructed
        /\ p_used[n].marker = <<"#">>
        /\ p_used[n].title = PyStr(<<"O", "l", "d", "#", "y">> \o DefaultEndMarker \o <<"z">>)

====
